---- MODULE Spec2Model ----
(***************************************************************************)
(* Model of the client in src/client/main.ts and src/client/amoebit_init.ts *)
(* One run of main(): establishConnection, establishPayer, checkAccounts,  *)
(* testContract, then process.exit.  The network (balances, airdrops, the  *)
(* outcome of a submission) is the environment.                            *)
(***************************************************************************)
EXTENDS Integers, Sequences, FiniteSets, TLC

\* ---- bounds of the model -------------------------------------------------
MaxBalanceUnits == 3
BalanceUnit == 2500
LamportsPerSignatureUnit == 50
MaxPolls == 2

\* ---- values the environment can supply -----------------------------------
Balances == {k * BalanceUnit : k \in 0..MaxBalanceUnits}
LamportsPerSignatureValues == {0, LamportsPerSignatureUnit}
PayerKeys == {"P1", "P2"}
MintKeys == {"M1", "M2"}
ProgramKeys == {"Prog1", "Prog2"}
ProgramInfos == {"null", "not_executable", "executable"}
Outcomes == {"confirmed", "RejectedByNetwork", "ConfirmationTimeout"}

\* ---- addresses -----------------------------------------------------------
Key(id) == [kind |-> "key", id |-> id]
Buf(text) == [kind |-> "bytes", id |-> text]
NoKey == [kind |-> "none", id |-> "undefined"]

meta_program == Key("metaqbxxUerdq28cj1RbAWkYQm3ybzjb6a8bt518x1s")
associated_program == Key("ATokenGPvbdGVxr1b2hvZbsiqW5xWH25efTNsLJA8knL")
rugged_mint == Key("GQFdQvFMjkq5x1Ny4nsEqRgcwdedJWpq3Fsy5KqjGKSm")
sys_key == Key("11111111111111111111111111111111")
rent_key == Key("SysvarRent111111111111111111111111111111111")
new_update_auth == Key("VLawmZTgLAbdeqrU579ohsdey9H1h3Mi1UeUJpg2mQB")
TOKEN_PROGRAM_ID == Key("TokenkegQfeZyiNwAJbNbGKPFXCWuBvf9Ss623VQ5DA")

\* PublicKey.findProgramAddress(seeds, programId)[0]: a value determined by
\* the seed sequence and the owning program, distinct from every key-pair address.
findProgramAddress(seeds, program) ==
    [kind |-> "derived", seeds |-> seeds, owner |-> program]

FeeSignatures == 100
MintLayoutSpan == 82
AccountLayoutSpan == 165

\* connection.getMinimumBalanceForRentExemption(span), as the network answers it
getMinimumBalanceForRentExemption(span) == (128 + span) * 6960

VARIABLES
    pc,            \* position of the run
    error,         \* the failure the run was rejected with ("none" if none)
    exitCode,      \* <<status>> once process.exit was called, <<>> before
    completed,     \* functions of main that have returned, in order
    connection,    \* TRUE once `connection` is assigned
    payer,         \* module variable `payer` (NoKey while undefined)
    programId,     \* module variable `programId`
    programInfo,   \* result of getAccountInfo(programId) in checkAccounts
    fees,          \* establishPayer: local `fees`
    lamports,      \* establishPayer: local `lamports`
    balance,       \* the payer's balance on the ledger
    lamportsPerSignature, \* feeCalculator.lamportsPerSignature of the cluster
    calls,         \* network calls made by establishPayer, in order
    mint_kp,       \* testContract: Keypair.generate()
    derived,       \* testContract: the five derived addresses
    rents,         \* testContract: mintRent and tokenRent
    transaction,   \* testContract: instruction list of `transaction`
    sent,          \* transactions transmitted to the network, in order
    polls,         \* status polls made on the transmitted transaction
    outcome        \* terminal status of the submission ("none" before)

vars == <<pc, error, exitCode, completed, connection, payer, programId,
          programInfo, fees, lamports, balance, lamportsPerSignature, calls,
          mint_kp, derived, rents, transaction, sent, polls, outcome>>

NoDerived == [token_key |-> NoKey, rugged_token |-> NoKey, meta_key |-> NoKey,
              rugged_metadata |-> NoKey, auth_key |-> NoKey]
NoRents == [mintRent |-> 0, tokenRent |-> 0]

Init ==
    /\ pc = "establishConnection"
    /\ error = "none"
    /\ exitCode = <<>>
    /\ completed = <<>>
    /\ connection = FALSE
    /\ payer = NoKey
    /\ programId = NoKey
    /\ programInfo = "none"
    /\ fees = 0
    /\ lamports = 0
    /\ balance \in Balances
    /\ lamportsPerSignature \in LamportsPerSignatureValues
    /\ calls = <<>>
    /\ mint_kp = NoKey
    /\ derived = NoDerived
    /\ rents = NoRents
    /\ transaction = <<>>
    /\ sent = <<>>
    /\ polls = 0
    /\ outcome = "none"

\* An awaited call rejects: the exception leaves every enclosing async function
\* and reaches the rejection handler of main().then (main.ts:28).
Throw(e) == pc' = "rejected" /\ error' = e

Call(op, to, amount) == [op |-> op, to |-> to, amount |-> amount]

\* ---- establishConnection (amoebit_init.ts:50-55) --------------------------
establishConnection ==
    /\ pc = "establishConnection"
    /\ \E ok \in BOOLEAN :
        IF ok
        THEN /\ connection' = TRUE
             /\ completed' = Append(completed, "establishConnection")
             /\ pc' = "establishPayer"
             /\ error' = error
        ELSE /\ Throw("NetworkFailure")
             \* getRpcUrl rejects before the assignment, getVersion after it
             /\ connection' \in BOOLEAN
             /\ completed' = completed
    /\ UNCHANGED <<exitCode, payer, programId, programInfo, fees, lamports,
                   balance, lamportsPerSignature, calls, mint_kp, derived,
                   rents, transaction, sent, polls, outcome>>

\* ---- establishPayer (amoebit_init.ts:57-86) -------------------------------
\* fees after the `if (!payer)` block
RequiredFees(payerNow, lps) ==
    IF payerNow = NoKey THEN 0 + lps * FeeSignatures ELSE 0

\* `lamports < fees`
NeedsAirdrop(lamportsNow, feesNow) == lamportsNow < feesNow

\* variant: the airdrop asks for the whole fee amount
AirdropAmount_FullFees(feesNow, lamportsNow) == feesNow

\* second argument of requestAirdrop
AirdropAmount(feesNow, lamportsNow) == feesNow - lamportsNow

\* lines 58-69: fees, payer, first getBalance and the comparison; when no
\* airdrop is needed the function logs and returns.
establishPayer ==
    /\ pc = "establishPayer"
    /\ \E ok \in BOOLEAN, p \in PayerKeys :
        IF ok
        THEN /\ fees' = RequiredFees(payer, lamportsPerSignature)
             /\ payer' = IF payer = NoKey THEN Key(p) ELSE payer
             /\ lamports' = balance
             /\ calls' = Append(calls, Call("getBalance", payer', balance))
             /\ IF NeedsAirdrop(lamports', fees')
                THEN pc' = "requestAirdrop" /\ completed' = completed
                ELSE /\ pc' = "checkAccounts"
                     /\ completed' = Append(completed, "establishPayer")
             /\ error' = error
        ELSE /\ Throw("BalanceQueryFailure")
             \* getRecentBlockhash or getPayer rejects before `payer` is
             \* assigned, getBalance after it
             /\ \E assigned \in BOOLEAN :
                  IF assigned
                  THEN /\ fees' = RequiredFees(payer, lamportsPerSignature)
                       /\ payer' = IF payer = NoKey THEN Key(p) ELSE payer
                  ELSE UNCHANGED <<fees, payer>>
             /\ UNCHANGED <<lamports, calls, completed>>
    /\ UNCHANGED <<exitCode, connection, programId, programInfo, balance,
                   lamportsPerSignature, mint_kp, derived, rents, transaction,
                   sent, polls, outcome>>

\* lines 71-74
requestAirdrop ==
    /\ pc = "requestAirdrop"
    /\ \E ok \in BOOLEAN :
        IF ok
        THEN /\ calls' = Append(calls, Call("requestAirdrop", payer,
                                            AirdropAmount(fees, lamports)))
             /\ pc' = "confirmTransaction"
             /\ error' = error
        ELSE /\ Throw("NetworkFailure")
             /\ calls' = calls
    /\ UNCHANGED <<exitCode, completed, connection, payer, programId,
                   programInfo, fees, lamports, balance, lamportsPerSignature,
                   mint_kp, derived, rents, transaction, sent, polls, outcome>>

\* line 75: confirmTransaction resolves whether or not the airdrop was
\* credited (a failed airdrop is reported in the result value, which the code
\* does not inspect); it rejects on a network failure or timeout.
confirmTransaction ==
    /\ pc = "confirmTransaction"
    /\ \E ok \in BOOLEAN, credited \in BOOLEAN :
        /\ balance' = IF credited
                      THEN balance + calls[Len(calls)].amount
                      ELSE balance
        /\ IF ok
           THEN /\ calls' = Append(calls, Call("confirmTransaction", payer, 0))
                /\ pc' = "recheckBalance"
                /\ error' = error
           ELSE /\ Throw("NetworkFailure")
                /\ calls' = calls
    /\ UNCHANGED <<exitCode, completed, connection, payer, programId,
                   programInfo, fees, lamports, lamportsPerSignature,
                   mint_kp, derived, rents, transaction, sent, polls, outcome>>

\* lines 76-86: the second getBalance, then the log line and return
recheckBalance ==
    /\ pc = "recheckBalance"
    /\ \E ok \in BOOLEAN :
        IF ok
        THEN /\ lamports' = balance
             /\ calls' = Append(calls, Call("getBalance", payer, balance))
             /\ completed' = Append(completed, "establishPayer")
             /\ pc' = "checkAccounts"
             /\ error' = error
        ELSE /\ Throw("BalanceQueryFailure")
             /\ UNCHANGED <<lamports, calls, completed>>
    /\ UNCHANGED <<exitCode, connection, payer, programId, programInfo, fees,
                   balance, lamportsPerSignature, mint_kp, derived, rents,
                   transaction, sent, polls, outcome>>

\* ---- checkAccounts (amoebit_init.ts:91-110) -------------------------------
\* variant: the executable flag of the program account is not looked at
ProgramCheck_IgnoreExecutable(info, soExists) ==
    IF info = "null"
    THEN IF soExists THEN "ProgramNotDeployed" ELSE "ProgramNotBuilt"
    ELSE "none"

\* lines 98-108: the error thrown for a program account, "none" if it passes
ProgramCheck(info, soExists) ==
    IF info = "null"
    THEN IF soExists THEN "ProgramNotDeployed" ELSE "ProgramNotBuilt"
    ELSE IF info # "executable" THEN "ProgramNotExecutable" ELSE "none"

checkAccounts ==
    /\ pc = "checkAccounts"
    /\ \E ok \in BOOLEAN, k \in ProgramKeys, info \in ProgramInfos,
          soExists \in BOOLEAN :
        IF ok
        THEN /\ programId' = Key(k)
             /\ programInfo' = info
             /\ IF ProgramCheck(info, soExists) = "none"
                THEN /\ completed' = Append(completed, "checkAccounts")
                     /\ pc' = "testContract"
                     /\ error' = error
                ELSE /\ Throw(ProgramCheck(info, soExists))
                     /\ completed' = completed
        ELSE /\ Throw("NetworkFailure")
             \* createKeypairFromFile rejects before programId is assigned,
             \* getAccountInfo after it
             /\ programId' \in {programId, Key(k)}
             /\ UNCHANGED <<programInfo, completed>>
    /\ UNCHANGED <<exitCode, connection, payer, fees, lamports, balance,
                   lamportsPerSignature, calls, mint_kp, derived, rents,
                   transaction, sent, polls, outcome>>

\* ---- testContract (amoebit_init.ts:112-236) -------------------------------
\* variant: token_key is derived from the seeds of rugged_token
DeriveAll_RuggedSeeds(payerKey, mintKey, minter_program) ==
    [token_key |->
        findProgramAddress(<<payerKey, TOKEN_PROGRAM_ID, rugged_mint>>,
                           associated_program),
     rugged_token |->
        findProgramAddress(<<payerKey, TOKEN_PROGRAM_ID, rugged_mint>>,
                           associated_program),
     meta_key |->
        findProgramAddress(<<Buf("metadata"), meta_program, mintKey>>,
                           meta_program),
     rugged_metadata |->
        findProgramAddress(<<Buf("metadata"), meta_program, rugged_mint>>,
                           meta_program),
     auth_key |->
        findProgramAddress(<<Buf("amoebit_minter"), minter_program,
                             Buf("amoebit_minter")>>, minter_program)]

\* lines 118-159: the five derived addresses
DeriveAll(payerKey, mintKey, minter_program) ==
    [token_key |->
        findProgramAddress(<<payerKey, TOKEN_PROGRAM_ID, mintKey>>,
                           associated_program),
     rugged_token |->
        findProgramAddress(<<payerKey, TOKEN_PROGRAM_ID, rugged_mint>>,
                           associated_program),
     meta_key |->
        findProgramAddress(<<Buf("metadata"), meta_program, mintKey>>,
                           meta_program),
     rugged_metadata |->
        findProgramAddress(<<Buf("metadata"), meta_program, rugged_mint>>,
                           meta_program),
     auth_key |->
        findProgramAddress(<<Buf("amoebit_minter"), minter_program,
                             Buf("amoebit_minter")>>, minter_program)]

\* lines 113-162: key generation and address derivation
deriveAddresses ==
    /\ pc = "testContract"
    /\ \E ok \in BOOLEAN, m \in MintKeys :
        /\ mint_kp' = Key(m)
        /\ IF ok
           THEN /\ derived' = DeriveAll(payer, Key(m), programId)
                /\ pc' = "buildTransaction"
                /\ error' = error
           ELSE /\ Throw("DerivationFailure")
                /\ derived' = derived
    /\ UNCHANGED <<exitCode, completed, connection, payer, programId,
                   programInfo, fees, lamports, balance, lamportsPerSignature,
                   calls, rents, transaction, sent, polls, outcome>>

AccountMeta(pubkey, isSigner, isWritable) ==
    [pubkey |-> pubkey, isSigner |-> isSigner, isWritable |-> isWritable]

\* variant: account_2 (system program) is marked writable
CustomInvokeKeys_SysWritable(payerKey, mintKey, d) ==
    << AccountMeta(payerKey,          TRUE,  TRUE),
       AccountMeta(rugged_mint,       FALSE, TRUE),
       AccountMeta(sys_key,           FALSE, TRUE),
       AccountMeta(d.token_key,       FALSE, TRUE),
       AccountMeta(mintKey,           FALSE, TRUE),
       AccountMeta(d.meta_key,        FALSE, TRUE),
       AccountMeta(meta_program,      FALSE, FALSE),
       AccountMeta(rent_key,          FALSE, FALSE),
       AccountMeta(d.auth_key,        FALSE, TRUE),
       AccountMeta(TOKEN_PROGRAM_ID,  FALSE, FALSE),
       AccountMeta(d.rugged_metadata, FALSE, TRUE),
       AccountMeta(d.rugged_token,    FALSE, TRUE),
       AccountMeta(new_update_auth,   FALSE, TRUE) >>

\* lines 165-177 and 213: account_0 .. account_12, in the order of `keys`
CustomInvokeKeys(payerKey, mintKey, d) ==
    << AccountMeta(payerKey,          TRUE,  TRUE),
       AccountMeta(rugged_mint,       FALSE, TRUE),
       AccountMeta(sys_key,           FALSE, FALSE),
       AccountMeta(d.token_key,       FALSE, TRUE),
       AccountMeta(mintKey,           FALSE, TRUE),
       AccountMeta(d.meta_key,        FALSE, TRUE),
       AccountMeta(meta_program,      FALSE, FALSE),
       AccountMeta(rent_key,          FALSE, FALSE),
       AccountMeta(d.auth_key,        FALSE, TRUE),
       AccountMeta(TOKEN_PROGRAM_ID,  FALSE, FALSE),
       AccountMeta(d.rugged_metadata, FALSE, TRUE),
       AccountMeta(d.rugged_token,    FALSE, TRUE),
       AccountMeta(new_update_auth,   FALSE, TRUE) >>

\* lines 182-188
createAccount(fromPubkey, newAccountPubkey, lamportsArg, space, owner) ==
    [kind |-> "CreateAccount", fromPubkey |-> fromPubkey,
     newAccountPubkey |-> newAccountPubkey, lamports |-> lamportsArg,
     space |-> space, programId |-> owner]

\* lines 189-196
createAssociatedTokenAccountInstruction(associatedProgramId, tokenProgramId, mint, associatedAccount, owner, payerKey) ==
    [kind |-> "CreateAssociatedAccount",
     associatedProgramId |-> associatedProgramId,
     programId |-> tokenProgramId, mint |-> mint,
     associatedAccount |-> associatedAccount, owner |-> owner,
     payer |-> payerKey]

\* lines 197-203
createInitMintInstruction(tokenProgramId, mint, decimals, mintAuthority, freezeAuthority) ==
    [kind |-> "InitializeMint", programId |-> tokenProgramId, mint |-> mint,
     decimals |-> decimals, mintAuthority |-> mintAuthority,
     freezeAuthority |-> freezeAuthority]

\* lines 204-211
createMintToInstruction(tokenProgramId, mint, dest, authority, multiSigners, amount) ==
    [kind |-> "MintTo", programId |-> tokenProgramId, mint |-> mint,
     dest |-> dest, authority |-> authority, multiSigners |-> multiSigners,
     amount |-> amount]

\* lines 212-216
TransactionInstruction(keys, target, data) ==
    [kind |-> "CustomInvoke", keys |-> keys, programId |-> target,
     data |-> data]

\* variant: the mint is initialized before its account is created
TransactionAdd_Reordered(mintAccount, create_token, tokenAccount, mint_into_token_account, instruction) ==
    <<create_token, mintAccount, tokenAccount, mint_into_token_account,
      instruction>>

\* lines 219-225: new Transaction().add(...) appends its arguments in order
TransactionAdd(mintAccount, create_token, tokenAccount, mint_into_token_account, instruction) ==
    <<mintAccount, create_token, tokenAccount, mint_into_token_account,
      instruction>>

\* lines 182-225 for given payer, mint key, derived addresses and rent
BuildTransaction(payerKey, mintKey, d, mintRent) ==
    TransactionAdd(
        createAccount(payerKey, mintKey, mintRent, MintLayoutSpan,
                      TOKEN_PROGRAM_ID),
        createInitMintInstruction(TOKEN_PROGRAM_ID, mintKey, 0, payerKey,
                                  NoKey),
        createAssociatedTokenAccountInstruction(associated_program,
                                                TOKEN_PROGRAM_ID, mintKey,
                                                d.token_key, payerKey,
                                                payerKey),
        createMintToInstruction(TOKEN_PROGRAM_ID, mintKey, d.token_key,
                                payerKey, <<>>, 1),
        TransactionInstruction(CustomInvokeKeys(payerKey, mintKey, d),
                               programId, <<>>))

\* lines 179-225: the two rent queries, then the instructions and transaction
buildTransaction ==
    /\ pc = "buildTransaction"
    /\ \E ok \in BOOLEAN :
        IF ok
        THEN /\ rents' =
                  [mintRent |-> getMinimumBalanceForRentExemption(MintLayoutSpan),
                   tokenRent |-> getMinimumBalanceForRentExemption(AccountLayoutSpan)]
             /\ transaction' = BuildTransaction(payer, mint_kp, derived,
                                                rents'.mintRent)
             /\ pc' = "sendAndConfirmTransaction"
             /\ error' = error
        ELSE /\ Throw("BalanceQueryFailure")
             /\ UNCHANGED <<rents, transaction>>
    /\ UNCHANGED <<exitCode, completed, connection, payer, programId,
                   programInfo, fees, lamports, balance, lamportsPerSignature,
                   calls, mint_kp, derived, sent, polls, outcome>>

\* variant: the mint key pair is left out of the signers
Signers_PayerOnly(payerKey, mintKey) == <<payerKey>>

\* line 231: the signers handed to sendAndConfirmTransaction
Signers(payerKey, mintKey) == <<payerKey, mintKey>>

\* lines 228-233, first half: the transaction is signed and transmitted, or
\* the call rejects before anything was transmitted
sendTransaction ==
    /\ pc = "sendAndConfirmTransaction"
    /\ \E ok \in BOOLEAN :
        IF ok
        THEN /\ sent' = Append(sent, [instructions |-> transaction,
                                      signers |-> Signers(payer, mint_kp),
                                      skipPreflight |-> TRUE])
             /\ pc' = "confirming"
             /\ error' = error
        ELSE /\ Throw("NetworkFailure")
             /\ sent' = sent
    /\ UNCHANGED <<exitCode, completed, connection, payer, programId,
                   programInfo, fees, lamports, balance, lamportsPerSignature,
                   calls, mint_kp, derived, rents, transaction, polls, outcome>>

\* lines 228-233, second half: the status of the transmitted transaction is
\* observed again while it is not terminal
pollStatus ==
    /\ pc = "confirming"
    /\ polls < MaxPolls
    /\ polls' = polls + 1
    /\ UNCHANGED <<pc, error, exitCode, completed, connection, payer,
                   programId, programInfo, fees, lamports, balance,
                   lamportsPerSignature, calls, mint_kp, derived, rents,
                   transaction, sent, outcome>>

\* variant: a confirmation timeout leads back to the submission
AfterOutcome_Retry(o) ==
    IF o = "confirmed" THEN "resolved"
    ELSE IF o = "ConfirmationTimeout" THEN "sendAndConfirmTransaction"
    ELSE "rejected"

\* where the run goes once the awaited sendAndConfirmTransaction settles:
\* line 235 for a signature, out of testContract and main for a rejection
AfterOutcome(o) == IF o = "confirmed" THEN "resolved" ELSE "rejected"

\* lines 228-236: the awaited call settles; a signature is logged and
\* testContract returns, a rejection propagates
settle ==
    /\ pc = "confirming"
    /\ \E o \in Outcomes :
        /\ outcome' = o
        /\ pc' = AfterOutcome(o)
        /\ error' = IF o = "confirmed" THEN error ELSE o
        /\ completed' = IF o = "confirmed"
                        THEN Append(completed, "testContract")
                        ELSE completed
    /\ UNCHANGED <<exitCode, connection, payer, programId, programInfo, fees,
                   lamports, balance, lamportsPerSignature, calls, mint_kp,
                   derived, rents, transaction, sent, polls>>

\* ---- main().then (main.ts:26-32) ------------------------------------------
ExitStatus(position) == IF position = "resolved" THEN 0 ELSE 0 - 1

exit ==
    /\ pc \in {"resolved", "rejected"}
    /\ exitCode' = <<ExitStatus(pc)>>
    /\ pc' = "exited"
    /\ UNCHANGED <<error, completed, connection, payer, programId,
                   programInfo, fees, lamports, balance, lamportsPerSignature,
                   calls, mint_kp, derived, rents, transaction, sent, polls,
                   outcome>>

Next ==
    \/ establishConnection
    \/ establishPayer
    \/ requestAirdrop
    \/ confirmTransaction
    \/ recheckBalance
    \/ checkAccounts
    \/ deriveAddresses
    \/ buildTransaction
    \/ sendTransaction
    \/ pollStatus
    \/ settle
    \/ exit

Spec == Init /\ [][Next]_vars

\* ---- properties -----------------------------------------------------------
InstructionKinds(tx) == [i \in 1..Len(tx) |-> tx[i].kind]

RecipeOrder ==
    <<"CreateAccount", "InitializeMint", "CreateAssociatedAccount", "MintTo",
      "CustomInvoke">>

\* C1: a run that reaches submission has transmitted exactly one transaction,
\* and every transmitted transaction lists exactly CreateAccount,
\* InitializeMint, CreateAssociatedAccount, MintTo, CustomInvoke in this order;
\* the account created first is the mint initialized second, and the
\* associated account created third is the destination of the MintTo.
C1_InstructionOrder ==
    /\ Len(sent) <= 1
    /\ (pc = "confirming" \/ outcome # "none") => Len(sent) = 1
    /\ \A i \in 1..Len(sent) :
        LET tx == sent[i].instructions IN
        /\ InstructionKinds(tx) = RecipeOrder
        /\ tx[1].newAccountPubkey = tx[2].mint
        /\ tx[3].associatedAccount = tx[4].dest

C1_Witness == Len(sent) = 1 /\ outcome = "confirmed"

\* C2: whatever the resolved addresses, the CustomInvoke instruction has 13
\* account references in the template order, signer only at index 0, writable
\* everywhere except indices 2, 6, 7 and 9 (1-based: 3, 7, 8, 10), and an
\* empty payload.
C2_AccountTemplate ==
    transaction # <<>> =>
        LET ix == transaction[5]
            k == ix.keys
        IN /\ ix.kind = "CustomInvoke"
           /\ ix.data = <<>>
           /\ Len(k) = 13
           /\ [i \in 1..13 |-> k[i].pubkey] =
                <<payer, rugged_mint, sys_key, derived.token_key, mint_kp,
                  derived.meta_key, meta_program, rent_key, derived.auth_key,
                  TOKEN_PROGRAM_ID, derived.rugged_metadata,
                  derived.rugged_token, new_update_auth>>
           /\ derived.meta_key =
                findProgramAddress(<<Buf("metadata"), meta_program, mint_kp>>,
                                   meta_program)
           /\ derived.auth_key =
                findProgramAddress(<<Buf("amoebit_minter"), programId,
                                     Buf("amoebit_minter")>>, programId)
           /\ \A i \in 1..13 :
                /\ k[i].isSigner = (i = 1)
                /\ k[i].isWritable = (i \notin {3, 7, 8, 10})

C2_Witness ==
    /\ Len(sent) = 1
    /\ payer = Key("P2")
    /\ mint_kp = Key("M2")
    /\ programId = Key("Prog2")

AirdropCalls == {i \in 1..Len(calls) : calls[i].op = "requestAirdrop"}
BalanceCalls == {i \in 1..Len(calls) : calls[i].op = "getBalance"}

\* C3: establishPayer requests an airdrop only when the balance it read is
\* below the required fees, at most once, for exactly fees minus that balance;
\* the balance is read a second time only after that airdrop was confirmed;
\* and establishPayer returns after a low first reading only with exactly one
\* airdrop requested.  A first reading at or above the fees leads to none.
C3_AirdropShortfall ==
    /\ Cardinality(AirdropCalls) <= 1
    /\ \A i \in AirdropCalls :
        /\ i = 2
        /\ calls[1].op = "getBalance"
        /\ calls[1].amount < fees
        /\ calls[i].amount = fees - calls[1].amount
        /\ calls[i].amount > 0
        /\ calls[i].to = payer
    /\ \A j \in BalanceCalls :
        j # 1 => /\ j = 4
                 /\ calls[2].op = "requestAirdrop"
                 /\ calls[3].op = "confirmTransaction"
    /\ (Len(calls) >= 1 /\ calls[1].amount >= fees) => Len(calls) = 1
    /\ (Len(completed) >= 2 /\ calls[1].amount < fees) =>
            /\ Cardinality(AirdropCalls) = 1
            /\ Len(calls) = 4

\* balance 0 and fees = 100 signatures' worth: the airdrop asks for all of it
C3_Witness ==
    /\ Len(calls) = 4
    /\ calls[1].amount = 0
    /\ fees = LamportsPerSignatureUnit * 100
    /\ calls[2].amount = fees
    /\ calls[4].op = "getBalance"

C3_WitnessNoAirdrop ==
    /\ Len(completed) >= 2
    /\ Len(calls) = 1
    /\ fees > 0

\* C4: when the balance read after the airdrop is still below the required
\* fees, the run is rejected with InsufficientFunds and nothing is transmitted.
C4_InsufficientFundsRaised ==
    (Len(calls) = 4 /\ lamports < fees) =>
        /\ error = "InsufficientFunds"
        /\ sent = <<>>

Range(seq) == {seq[i] : i \in 1..Len(seq)}

\* C5: every transmitted transaction is signed by exactly the payer and the
\* generated mint key pair, and that key pair's address is the new account of
\* the CreateAccount instruction.
C5_SignerSet ==
    \A i \in 1..Len(sent) :
        /\ Len(sent[i].signers) = 2
        /\ Range(sent[i].signers) = {payer, mint_kp}
        /\ payer # mint_kp
        /\ payer.kind = "key"
        /\ mint_kp.kind = "key"
        /\ sent[i].instructions[1].kind = "CreateAccount"
        /\ sent[i].instructions[1].newAccountPubkey = mint_kp

C5_Witness == Len(sent) = 1 /\ pc = "confirming"

\* C6: at most one transaction is ever transmitted and, once transmitted, the
\* list of transmissions never changes, whatever the outcome; a failure
\* outcome rejects the run with that failure, and the process then exits with
\* status -1.  Only status polls repeat.
C6_SinglePass ==
    /\ Len(sent) <= 1
    /\ polls > 0 => Len(sent) = 1
    /\ outcome \in {"RejectedByNetwork", "ConfirmationTimeout"} =>
            /\ error = outcome
            /\ pc \in {"rejected", "exited"}
            /\ pc = "exited" => exitCode = <<0 - 1>>

C6_NoResubmission ==
    [](C6_SinglePass) /\ [][sent # <<>> => sent' = sent]_vars

C6_Witness ==
    /\ outcome = "ConfirmationTimeout"
    /\ polls = MaxPolls
    /\ pc = "exited"

PreSubmissionFailures ==
    {"NetworkFailure", "BalanceQueryFailure", "DerivationFailure",
     "ProgramNotDeployed", "ProgramNotBuilt", "ProgramNotExecutable"}

MainOrder ==
    <<"establishConnection", "establishPayer", "checkAccounts", "testContract">>

\* C9: a transaction is transmitted only after establishConnection,
\* establishPayer and checkAccounts returned, in that order, with the program
\* account present and executable; a failure of any step before transmission
\* stops the run, which then exits with status -1 and transmits nothing.
C9_SubmitOnlyAfterSetup ==
    /\ completed = SubSeq(MainOrder, 1, Len(completed))
    /\ sent # <<>> =>
            /\ Len(completed) >= 3
            /\ connection
            /\ payer # NoKey
            /\ programInfo = "executable"
    /\ programInfo \in {"null", "not_executable"} =>
            error \in {"ProgramNotDeployed", "ProgramNotBuilt",
                       "ProgramNotExecutable"}
    /\ error \in PreSubmissionFailures => sent = <<>>
    /\ error # "none" =>
            /\ pc \in {"rejected", "exited"}
            /\ pc = "exited" => exitCode = <<0 - 1>>

C9_Witness ==
    /\ pc = "exited"
    /\ error = "ProgramNotExecutable"
    /\ Len(completed) = 2

C9_WitnessSubmitted == sent # <<>> /\ Len(completed) = 3

\* C10: in every built transaction the associated account created, the MintTo
\* destination and entry 3 of the CustomInvoke list are the address derived
\* from (payer, token program, new mint) under the associated-account program;
\* and the created account, the mint of InitializeMint, of
\* CreateAssociatedAccount and of MintTo, and entry 4 of the CustomInvoke list
\* are the address of the generated mint key pair.
C10_SharedAddresses ==
    transaction # <<>> =>
        LET tx == transaction
            assoc == findProgramAddress(<<payer, TOKEN_PROGRAM_ID, mint_kp>>,
                                        associated_program)
        IN /\ tx[3].associatedAccount = assoc
           /\ tx[4].dest = assoc
           /\ tx[5].keys[4].pubkey = assoc
           /\ mint_kp \in {Key(m) : m \in MintKeys}
           /\ tx[1].newAccountPubkey = mint_kp
           /\ tx[2].mint = mint_kp
           /\ tx[3].mint = mint_kp
           /\ tx[4].mint = mint_kp
           /\ tx[5].keys[5].pubkey = mint_kp
           /\ \A i \in 1..Len(sent) : sent[i].instructions = tx

C10_Witness ==
    /\ Len(sent) = 1
    /\ mint_kp = Key("M1")
    /\ payer = Key("P2")

====
